---- MODULE Spec2Model ----
(***************************************************************************)
(* The share store of Runway Explorer: the Express backend that keeps      *)
(* encrypted blobs in an in-memory Map, hands out identifiers, answers     *)
(* lookups and sweeps expired entries on a timer.                          *)
(***************************************************************************)
EXTENDS Integers, Sequences, FiniteSets, TLC

VARIABLES
  shares,     \* the Map `shares`: identifier -> {encryptedData, expiresAt, createdAt}
  now,        \* the value Date.now() returns, in clock ticks (see Ms)
  nextSweep,  \* the clock value at which the setInterval timer is due next
  res,        \* the response sent to the last request
  link,       \* a share link a client holds: what one 201 response promised
  advances,   \* how often the clock has moved (bounds the model)
  creates,    \* how many records were stored (bounds the model)
  unswept,    \* the Map of the same run of requests with the timer never firing
  heldKey,    \* the encryption key a browser holds, and where it has it from
  enc,        \* the last call of encryptData: arguments, iv drawn, and result
  dec,        \* the last call of decryptData: arguments and result
  wire,       \* the requests the browsers have sent to the store service
  shared,     \* the call of createShare in the sharing browser, and what it returned
  page,       \* SharedViewPage in the viewing browser: its route and its state
  history,    \* the identifiers 201 responses gave out, and those a GET answered 404 for since
  dialog,     \* ShareDialog: its state, its reset timers and its calls of createShare
  selection,  \* what is selected on HomePage and on SharedViewPage, and the tab shown
  airfieldStore \* the state of useAirfieldStore

\* the state of the encryption client
crypto == <<heldKey, enc, dec>>

\* the state of the browsers that share and view
browsers == <<wire, shared, page>>

\* the state of the application around the share pipeline
views == <<dialog, selection, airfieldStore>>

\* what the share pipeline leaves alone
apps == <<history, views>>

\* what the store's own actions leave alone
others == <<unswept, crypto, browsers, apps>>

vars == <<shares, now, nextSweep, res, link, advances, creates, unswept, heldKey, enc, dec,
          wire, shared, page, history, dialog, selection, airfieldStore>>

(***************************************************************************)
(* Bounds of the model.                                                    *)
(***************************************************************************)
MaxAdvances == 1
\* how many timers of one kind a component has pending at a time
MaxTimers == 2
\* how often the effect of SharedViewPage runs
MaxLoads == 2
\* how many airfields and how many flights the store holds
MaxAirfields == 2
MaxFlightPaths == 1
MaxCreates == 2

(***************************************************************************)
(* Time.  Date.now() counts milliseconds; 30 days of them exceed 2^31, the *)
(* range of TLC's integers, so the model clock counts ticks of 500 ms.     *)
(* Every millisecond amount of the source is written as in the source and  *)
(* converted by Ms.                                                        *)
(***************************************************************************)
Ms(ms) == ms \div 500

\* The clock value at which the server process starts.  The handlers depend
\* on differences of clock values only, but for the truthiness test of
\* expiresAt, which fails for the time value 0: no request of the model
\* computes an expiresAt of 0 from this start.
StartNow == Ms(2000)

\* The amounts by which the clock moves between two events of the event loop.
ClockSteps == {Ms(500), Ms(1000), Ms(60 * 60 * 1000)}

(***************************************************************************)
(* JavaScript values as they arrive in a JSON body or arise in arithmetic. *)
(* A string is written as a TLA+ string where the code looks at its        *)
(* identity and length only, and as the tuple of its characters where the  *)
(* code looks at the characters.                                           *)
(***************************************************************************)
Undefined == [t |-> "undefined", n |-> 0, s |-> ""]
Num(n) == [t |-> "number", n |-> n, s |-> ""]
Str(s) == [t |-> "string", n |-> 0, s |-> s]
NaN == [t |-> "NaN", n |-> 0, s |-> ""]

\* typeof v
TypeOf(v) == IF v.t \in {"number", "NaN"} THEN "number" ELSE v.t

\* ToBoolean(v): what `!v`, `v ? a : b` and `v && w` test
Truthy(v) ==
  CASE v.t = "undefined" -> FALSE
    [] v.t = "number" -> v.n # 0
    [] v.t = "string" -> Len(v.s) # 0
    [] v.t = "NaN" -> FALSE

\* ToNumber(v), as the operator * applies it to its operand
ToNumber(v) ==
  CASE v.t = "undefined" -> NaN
    [] v.t = "string" -> IF v.s = "" THEN Num(0) ELSE NaN  \* no string sent is a numeral
    [] OTHER -> v

\* v * 1000 milliseconds, in ticks
Times1000(v) ==
  LET x == ToNumber(v) IN IF x.t = "number" THEN Num(x.n * Ms(1000)) ELSE x

\* Date.now() + x for an amount x of ticks
NowPlus(t, x) == IF x.t = "number" THEN Num(t + x.n) ELSE x

\* a < b on numbers: false whenever an operand is NaN
Less(a, b) ==
  CASE a.t = "number" /\ b.t = "number" -> a.n < b.n
    [] OTHER -> FALSE

\* new Date(x).toISOString() throws a RangeError unless x is a time value in range
ValidDate(x) == x.t = "number"

\* new Date(x).toISOString(): the calendar day and the time of day
ToISOString(x) ==
  [date |-> x.n \div Ms(24 * 60 * 60 * 1000), time |-> x.n % Ms(24 * 60 * 60 * 1000)]

(***************************************************************************)
(* Identifiers: crypto.randomBytes(16).toString('hex').                    *)
(***************************************************************************)
HexDigits == <<"0", "1", "2", "3", "4", "5", "6", "7", "8", "9", "a", "b", "c", "d", "e", "f">>

\* Buffer.toString('hex'): two lower-case digits per byte
ToHex(bytes) ==
  [i \in 1..(2 * Len(bytes)) |->
     IF i % 2 = 1 THEN HexDigits[(bytes[(i + 1) \div 2] \div 16) + 1]
                  ELSE HexDigits[(bytes[i \div 2] % 16) + 1]]

\* the outcomes of crypto.randomBytes(n) the model draws from
RandomBytes(n) == {[i \in 1..n |-> (171 * k + 29 * i) % 256] : k \in {1, 2}}

\* the test with the quantifier {32} lost: any non-empty run of hex digits passes
ValidShareIdAnyLength(id) ==
  /\ Len(id) >= 1
  /\ \A i \in 1..Len(id) : id[i] \in {HexDigits[d] : d \in 1..16}

\* /^[0-9a-f]{32}$/.test(id)
ValidShareId(id) ==
  /\ Len(id) = 32
  /\ \A i \in 1..Len(id) : id[i] \in {HexDigits[d] : d \in 1..16}

(***************************************************************************)
(* The Map.                                                                *)
(***************************************************************************)
MapSet(m, k, v) == [i \in (DOMAIN m) \cup {k} |-> IF i = k THEN v ELSE m[i]]
MapDelete(m, k) == [i \in (DOMAIN m) \ {k} |-> m[i]]

\* the comparison turned round: `share.expiresAt > now`
ExpiredReversed(share, t) == Truthy(share.expiresAt) /\ Less(Num(t), share.expiresAt)

\* `share.expiresAt && share.expiresAt < now`
Expired(share, t) == Truthy(share.expiresAt) /\ Less(share.expiresAt, Num(t))

(***************************************************************************)
(* app.use(express.json({ limit: '10mb' })): the body parser answers 413   *)
(* to a body longer than the limit, and no handler runs.                   *)
(***************************************************************************)
\* '10mb' in bytes
JsonLimit == 10 * 1024 * 1024

\* A string of n base64 characters, too long to write out: the model names
\* it by its length, and the value carries the length in n.
BlobLengths == {JsonLimit - 37, JsonLimit - 20, JsonLimit - 19, JsonLimit + 1}
Blob(n) == "<" \o ToString(n) \o " base64 characters>"
Blobs == [n \in BlobLengths |-> Blob(n)]
LongStr(n) == [t |-> "string", n |-> n, s |-> Blobs[n]]

\* the length of a string value, in characters and (all of them ASCII) in bytes
StringLength(v) == IF v.n > 0 THEN v.n ELSE Len(v.s)

\* the length of a string the store holds
Length(s) ==
  IF \E n \in BlobLengths : s = Blobs[n]
    THEN CHOOSE n \in BlobLengths : s = Blobs[n]
    ELSE Len(s)

\* the number of characters of the decimal numeral of an integer
RECURSIVE Digits(_)
Digits(n) ==
  IF n < 0 THEN 1 + Digits(-n) ELSE IF n < 10 THEN 1 ELSE 1 + Digits(n \div 10)

\* the length of JSON.stringify(v); none of the strings needs an escape
JsonLength(v) ==
  CASE v.t = "number" -> Digits(v.n)
    [] v.t = "string" -> StringLength(v) + 2
    [] OTHER -> 0

\* the length of the body JSON.stringify({ encryptedData, expiresIn }), which
\* leaves out an undefined member
BodyLength(body) ==
  LET data == IF body.encryptedData.t = "undefined" THEN 0
              ELSE Len("\"encryptedData\":") + JsonLength(body.encryptedData)
      ttl == IF body.expiresIn.t = "undefined" THEN 0
             ELSE Len("\"expiresIn\":") + JsonLength(body.expiresIn)
      comma == IF data > 0 /\ ttl > 0 THEN 1 ELSE 0
  IN  Len("{}") + data + comma + ttl

\* the request as it arrives: the members of the body, and the Content-Length
\* header, which the body parser compares with its limit
Request(encryptedData, expiresIn) ==
  [encryptedData |-> encryptedData, expiresIn |-> expiresIn,
   contentLength |->
     BodyLength([encryptedData |-> encryptedData, expiresIn |-> expiresIn])]

\* the body parser with its limit taken away
TooLargeNever(body) == FALSE

\* the body parser refuses the body
TooLarge(body) == body.contentLength > JsonLimit


(***************************************************************************)
(* Requests the model sends.                                               *)
(***************************************************************************)
EncryptedDataValues == {Undefined, Str(""), Num(123), Str("dGVzdA=="), Str("test123")}
ExpiresInValues == {Undefined, Num(-1), Num(0), Num(1), Str("abc")}
Bodies == {Request(d, e) : d \in EncryptedDataValues, e \in ExpiresInValues}

\* requests at the limits: bodies as long as the body parser takes and one
\* byte longer, and a time to live of one hour, the period of the timer
LimitBodies ==
  {Request(d, e) : d \in {Str("dGVzdA==")} \cup {LongStr(n) : n \in BlobLengths},
                   e \in {Undefined, Num(3600)}}

IssuableIds == {ToHex(b) : b \in RandomBytes(16)}
SomeId == ToHex([i \in 1..16 |-> (171 + 29 * i) % 256])
MalformedIds ==
  { SubSeq(SomeId, 1, 31), SomeId \o <<"0">>,
    [SomeId EXCEPT ![1] = "g"], [SomeId EXCEPT ![32] = "A"] }
\* a well-formed identifier that crypto.randomBytes never gives in the model
UnissuedId == ToHex([i \in 1..16 |-> (29 * i) % 256])
RequestIds == IssuableIds \cup MalformedIds \cup {UnissuedId}

NoResponse == [status |-> 0]
NoLink == [id |-> <<>>]
NoKey == [text |-> <<>>, from |-> "nowhere"]
NoCall == [called |-> FALSE]
\* ShareDialog as it is mounted: the six useState values (null is <<>>), the
\* reset timers and the copy timers that are pending, and the call of
\* createShare that has not settled (the title it was called with)
NoDialog == [open |-> FALSE, loading |-> FALSE, shareUrl |-> <<>>, shareTitle |-> <<>>,
             copied |-> FALSE, error |-> <<>>, timers |-> 0, copyTimers |-> 0, call |-> <<>>]
\* useState(null), useState(null), useState("map") of a page
NoSelection == [selectedAirfield |-> <<>>, selectedFlightPath |-> <<>>, activeTab |-> "map"]
\* the state useAirfieldStore is created with (null is <<>>)
InitialState == [airfields |-> <<>>, flightPaths |-> <<>>, homeAirfieldId |-> <<"1">>]
\* no identifier given out, no 404 answered yet
NoHistory == [issued |-> {}, gone |-> {}]
NoShare == [called |-> FALSE]
\* useState(true), useState(null), useState(null), before the effect has run
\* error is <<>> for null and <<message>> for a string.  pending holds the
\* runs of loadSharedData that wait for getShare, settled tells of the run
\* that ended last: its route, the status of its response (0: no request
\* sent) and the name of the error it caught ("" for none).  The runs are
\* numbered in the order in which the effect started them.
NoLoad == [run |-> 0, shareId |-> <<>>, hash |-> <<>>, status |-> 0, thrown |-> ""]
NoPage == [opened |-> FALSE, shareId |-> <<>>, hash |-> <<>>, pending |-> <<>>,
           settled |-> NoLoad, loads |-> 0,
           at |-> 0, loading |-> TRUE, error |-> <<>>, sharedData |-> <<"null", <<>>>>]

Init ==
  /\ shares = <<>>
  /\ now = StartNow
  /\ nextSweep = StartNow + Ms(60 * 60 * 1000)
  /\ res = NoResponse
  /\ link = NoLink
  /\ advances = 0
  /\ creates = 0
  /\ unswept = <<>>
  /\ heldKey = NoKey
  /\ enc = NoCall
  /\ dec = NoCall
  /\ wire = {}
  /\ shared = NoShare
  /\ page = NoPage
  /\ history = NoHistory
  /\ dialog = NoDialog
  /\ selection = [home |-> NoSelection, shared |-> NoSelection]
  /\ airfieldStore = InitialState

(***************************************************************************)
(* The clock moves between events of the event loop, never within a        *)
(* handler: the handlers are synchronous and read Date.now() within one    *)
(* tick.                                                                   *)
(***************************************************************************)
AdvanceClock(d) ==
  /\ advances < MaxAdvances
  /\ now' = now + d
  /\ advances' = advances + 1
  /\ UNCHANGED <<shares, nextSweep, res, link, creates>>
  /\ UNCHANGED others

(***************************************************************************)
(* setInterval(() => {...}, 60 * 60 * 1000)                                *)
(***************************************************************************)
Swept(m, t) ==
  LET keep == {i \in DOMAIN m : ~Expired(m[i], t)} IN [i \in keep |-> m[i]]

Cleanup ==
  /\ now >= nextSweep
  /\ shares' = Swept(shares, now)
  /\ nextSweep' = now + Ms(60 * 60 * 1000)
  /\ UNCHANGED <<now, res, link, advances, creates>>
  /\ UNCHANGED others

(***************************************************************************)
(* app.post('/api/shares')                                                 *)
(***************************************************************************)
\* the guard without its typeof test: `!encryptedData` alone
PostAcceptsAnyType(body) == Truthy(body.encryptedData)

\* the handler goes on past `!encryptedData || typeof encryptedData !== 'string'`
PostAccepts(body) ==
  Truthy(body.encryptedData) /\ TypeOf(body.encryptedData) = "string"

\* the expiration computed from the request's expiresIn
ExpiresAt(expiresIn, t) ==
  IF Truthy(expiresIn)
    THEN NowPlus(t, Times1000(expiresIn))
    ELSE Num(t + 30 * 24 * 60 * 60 * Ms(1000))

\* the record shares.set stores
NewShare(body, t) ==
  [encryptedData |-> body.encryptedData.s,
   expiresAt |-> ExpiresAt(body.expiresIn, t),
   createdAt |-> t]

\* the request gets as far as shares.set
PostStores(body) == ~TooLarge(body) /\ PostAccepts(body)

\* the Map after the request, when crypto.randomBytes gave the identifier id
PostEffect(m, body, id, t) ==
  IF PostStores(body) THEN MapSet(m, id, NewShare(body, t)) ELSE m

\* the response of the handler: toISOString() throws after the record is
\* stored, and the catch block answers 500
PostResponse(body, id, t) ==
  IF TooLarge(body)
    THEN [status |-> 413, body |-> [error |-> "request entity too large"]]
    ELSE IF ~PostAccepts(body)
      THEN [status |-> 400, body |-> [error |-> "Invalid encryptedData"]]
      ELSE IF ValidDate(ExpiresAt(body.expiresIn, t))
        THEN [status |-> 201,
              body |-> [id |-> id, expiresAt |-> ToISOString(ExpiresAt(body.expiresIn, t))]]
        ELSE [status |-> 500, body |-> [error |-> "Internal server error"]]

\* the effects of the request on the server; id is read only when the body
\* is accepted: crypto.randomBytes is called after the validation
Post(body, id) ==
  /\ PostStores(body) => creates < MaxCreates
  /\ creates' = IF PostStores(body) THEN creates + 1 ELSE creates
  /\ shares' = PostEffect(shares, body, id, now)
  /\ res' = PostResponse(body, id, now)
  /\ UNCHANGED <<now, nextSweep, advances>>

PostShares(body) ==
  /\ IF PostStores(body)
       THEN \E id \in IssuableIds : Post(body, id)
       ELSE Post(body, <<>>)
  /\ UNCHANGED link
  /\ UNCHANGED others

\* the same request, whose 201 response gives a client its share link
PostSharesKeepLink(body) ==
  \E id \in IssuableIds :
    /\ Post(body, id)
    /\ link = NoLink
    /\ PostResponse(body, id, now).status = 201
    /\ link' = [id |-> id, encryptedData |-> body.encryptedData.s,
                expiresIn |-> body.expiresIn, at |-> now]
    /\ UNCHANGED others

(***************************************************************************)
(* app.get('/api/shares/:id')                                              *)
(***************************************************************************)
\* the handler without its test of expiresAt
GetResponseUnchecked(m, id, t) ==
  IF id = <<>> \/ ~ValidShareId(id)
    THEN [status |-> 400, body |-> [error |-> "Invalid share ID"]]
    ELSE IF id \notin DOMAIN m
      THEN [status |-> 404, body |-> [error |-> "Share not found"]]
      ELSE [status |-> 200, body |-> [encryptedData |-> m[id].encryptedData]]

\* the response of the handler to GET /api/shares/{id} at clock value t
GetResponse(m, id, t) ==
  IF id = <<>> \/ ~ValidShareId(id)
    THEN [status |-> 400, body |-> [error |-> "Invalid share ID"]]
    ELSE IF id \notin DOMAIN m
      THEN [status |-> 404, body |-> [error |-> "Share not found"]]
      ELSE IF Expired(m[id], t)
        THEN [status |-> 404, body |-> [error |-> "Share has expired"]]
        ELSE [status |-> 200, body |-> [encryptedData |-> m[id].encryptedData]]

\* the handler deleting every expired record it finds, as the timer does
GetEffectSweeping(m, id, t) ==
  IF id # <<>> /\ ValidShareId(id) /\ id \in DOMAIN m /\ Expired(m[id], t)
    THEN Swept(m, t)
    ELSE m

\* the Map after the handler: an expired record that was looked up is deleted
GetEffect(m, id, t) ==
  IF id # <<>> /\ ValidShareId(id) /\ id \in DOMAIN m /\ Expired(m[id], t)
    THEN MapDelete(m, id)
    ELSE m

\* the effects of the handler on the server
Get(id) ==
  /\ res' = GetResponse(shares, id, now)
  /\ shares' = GetEffect(shares, id, now)
  /\ UNCHANGED <<now, nextSweep, advances, creates>>

GetShare(id) ==
  /\ Get(id)
  /\ UNCHANGED link
  /\ UNCHANGED others

Next ==
  \/ \E d \in ClockSteps : AdvanceClock(d)
  \/ Cleanup
  \/ \E body \in Bodies : PostShares(body)
  \/ \E id \in RequestIds : GetShare(id)

Spec == Init /\ [][Next]_vars

\* the store together with a client that keeps one of the links it is given
NextLink ==
  \/ \E d \in ClockSteps : AdvanceClock(d)
  \/ Cleanup
  \/ \E body \in Bodies : PostShares(body)
  \/ \E body \in Bodies : PostSharesKeepLink(body)
  \/ \E id \in RequestIds : GetShare(id)

SpecLink == Init /\ [][NextLink]_vars

(***************************************************************************)
(* The store with requests at its limits.                                  *)
(***************************************************************************)
NextAtLimits ==
  \/ \E d \in ClockSteps : AdvanceClock(d)
  \/ Cleanup
  \/ \E body \in LimitBodies : PostShares(body)
  \/ \E id \in RequestIds : GetShare(id)

SpecAtLimits == Init /\ [][NextAtLimits]_vars

(***************************************************************************)
(* Two runs of the store side by side: the same requests at the same clock *)
(* values with the same outcomes of crypto.randomBytes, one with the timer *)
(* firing (shares) and one in which it never fires (unswept).              *)
(***************************************************************************)
TwinBodies == {Request(d, e) : d \in {Str("dGVzdA=="), Str("test123")}, e \in ExpiresInValues}

PostSharesInBoth(body) ==
  /\ \E id \in IssuableIds :
       /\ Post(body, id)
       /\ unswept' = PostEffect(unswept, body, id, now)
  /\ UNCHANGED <<link, crypto, browsers, apps>>

GetShareInBoth(id) ==
  /\ Get(id)
  /\ unswept' = GetEffect(unswept, id, now)
  /\ UNCHANGED <<link, crypto, browsers, apps>>

NextTwin ==
  \/ \E d \in ClockSteps : AdvanceClock(d)
  \/ Cleanup
  \/ \E body \in TwinBodies : PostSharesInBoth(body)
  \/ \E id \in RequestIds : GetShareInBoth(id)

SpecTwin == Init /\ [][NextTwin]_vars

(***************************************************************************)
(* The store with a record of what its clients have seen: the identifiers  *)
(* that 201 responses gave out (issued), and those of them for which a GET *)
(* has answered 404 since (gone).                                          *)
(***************************************************************************)
PostSharesNoting(body) ==
  /\ \E id \in IssuableIds :
       /\ Post(body, id)
       /\ history' = IF PostResponse(body, id, now).status = 201
                       THEN [history EXCEPT !.issued = @ \cup {id}]
                       ELSE history
  /\ UNCHANGED <<link, unswept, crypto, browsers, views>>

GetShareNoting(id) ==
  /\ Get(id)
  /\ history' = IF GetResponse(shares, id, now).status = 404 /\ id \in history.issued
                  THEN [history EXCEPT !.gone = @ \cup {id}]
                  ELSE history
  /\ UNCHANGED <<link, unswept, crypto, browsers, views>>

NextExpiry ==
  \/ \E d \in ClockSteps : AdvanceClock(d)
  \/ Cleanup
  \/ \E body \in TwinBodies : PostSharesNoting(body)
  \/ \E id \in RequestIds : GetShareNoting(id)

SpecExpiry == Init /\ [][NextExpiry]_vars

(***************************************************************************)
(* The encryption client, lib/encryption.ts.  A text is the tuple of its   *)
(* characters, each a one-letter string; a byte array is a tuple of        *)
(* numbers in 0..255.                                                      *)
(***************************************************************************)
UpperHexDigits == <<"0", "1", "2", "3", "4", "5", "6", "7", "8", "9", "A", "B", "C", "D", "E", "F">>

\* the value of a hexadecimal digit of either case, -1 for any other character
DigitValue(c) ==
  IF \E d \in 1..16 : HexDigits[d] = c
    THEN (CHOOSE d \in 1..16 : HexDigits[d] = c) - 1
    ELSE IF \E d \in 1..16 : UpperHexDigits[d] = c
      THEN (CHOOSE d \in 1..16 : UpperHexDigits[d] = c) - 1
      ELSE -1

\* parts.join(''), halving the list
RECURSIVE Join(_)
Join(parts) ==
  IF Len(parts) = 0 THEN <<>>
  ELSE IF Len(parts) = 1 THEN parts[1]
  ELSE Join(SubSeq(parts, 1, Len(parts) \div 2))
         \o Join(SubSeq(parts, (Len(parts) \div 2) + 1, Len(parts)))

\* byte.toString(16)
ToString16(byte) ==
  IF byte < 16 THEN <<HexDigits[byte + 1]>>
               ELSE <<HexDigits[(byte \div 16) + 1], HexDigits[(byte % 16) + 1]>>

\* the digits as toString(16) gives them, without padding
PadStartNot(s) == s

\* s.padStart(2, '0')
PadStart2(s) == IF Len(s) < 2 THEN <<"0">> \o s ELSE s

\* generateEncryptionKey(), when crypto.getRandomValues filled the array so
generateEncryptionKey(array) ==
  Join([i \in 1..Len(array) |-> PadStart2(ToString16(array[i]))])

\* the test without its quantifier {32}
isValidEncryptionKeyAnyLength(key) ==
  /\ Len(key) >= 1
  /\ \A i \in 1..Len(key) : DigitValue(key[i]) >= 0

\* /^[0-9a-f]{32}$/i.test(key)
isValidEncryptionKey(key) ==
  /\ Len(key) = 32
  /\ \A i \in 1..Len(key) : DigitValue(key[i]) >= 0

\* hexKey.match(/.{1,2}/g): pieces of two characters, the last one of a
\* single character when the length is odd
Match12(s) ==
  [i \in 1..((Len(s) + 1) \div 2) |->
     SubSeq(s, (2 * i) - 1, IF 2 * i <= Len(s) THEN 2 * i ELSE Len(s))]

\* parseInt with one digit read only
ParseIntOneDigit(piece) == DigitValue(piece[1])

\* parseInt(piece, 16) of a piece of one or two characters: the value of its
\* longest prefix of hexadecimal digits of either case, and NaN (here -1)
\* when the first character is no digit.  The keys of the model hold no
\* sign, blank or 0x prefix.
ParseInt16(piece) ==
  IF DigitValue(piece[1]) < 0 THEN -1
  ELSE IF Len(piece) = 1 \/ DigitValue(piece[2]) < 0 THEN DigitValue(piece[1])
  ELSE 16 * DigitValue(piece[1]) + DigitValue(piece[2])

\* new Uint8Array([...]): NaN becomes 0
ToUint8(x) == IF x < 0 THEN 0 ELSE x % 256

\* the key material hexToKey imports
KeyData(hexKey) ==
  LET pieces == Match12(hexKey) IN [i \in 1..Len(pieces) |-> ToUint8(ParseInt16(pieces[i]))]

\* crypto.subtle.importKey('raw', keyData, 'AES-GCM') takes 128, 192 or 256
\* bits; match() is null for the empty string, and .map throws
ImportKeyAccepts(hexKey) == Len(KeyData(hexKey)) \in {16, 24, 32}

Min(a, b) == IF a < b THEN a ELSE b

\* F(x), with x computed once where F reads it many times
With(x, F(_)) == CHOOSE y \in {F(v) : v \in {x}} : TRUE

Ok(v) == [ok |-> TRUE, value |-> v]
Failure(e) == [ok |-> FALSE, error |-> e]

(***************************************************************************)
(* AES-GCM of the Web Crypto API, stood in for by a cipher of the same     *)
(* shape: the output is as long as the input plus a tag of 16 bytes, the   *)
(* tag is computed over iv and ciphertext, and it verifies under one key   *)
(* only (x -> 167 * x is a bijection on bytes).                            *)
(***************************************************************************)
\* the sum of the bytes modulo 256, halving the array
RECURSIVE Sum(_)
Sum(bytes) ==
  IF Len(bytes) = 0 THEN 0
  ELSE IF Len(bytes) = 1 THEN bytes[1]
  ELSE (Sum(SubSeq(bytes, 1, Len(bytes) \div 2))
          + Sum(SubSeq(bytes, (Len(bytes) \div 2) + 1, Len(bytes)))) % 256

Keystream(keyData, iv, i) ==
  (keyData[((i - 1) % Len(keyData)) + 1] + iv[((i - 1) % Len(iv)) + 1] + i) % 256

Tag(keyData, iv, ct) ==
  With(Sum(iv) + Sum(ct), LAMBDA sum :
    [j \in 1..16 |-> (167 * keyData[((j - 1) % Len(keyData)) + 1] + sum + j) % 256])

\* crypto.subtle.encrypt({ name: 'AES-GCM', iv }, cryptoKey, dataBuffer)
AesGcmEncrypt(keyData, iv, pt) ==
  With([i \in 1..Len(pt) |-> (pt[i] + Keystream(keyData, iv, i)) % 256],
       LAMBDA ct : ct \o Tag(keyData, iv, ct))

\* crypto.subtle.decrypt({ name: 'AES-GCM', iv }, cryptoKey, encrypted)
AesGcmDecrypt(keyData, iv, data) ==
  IF Len(data) < 16 \/ Len(iv) = 0 THEN Failure("OperationError")
  ELSE With(SubSeq(data, 1, Len(data) - 16), LAMBDA ct :
         IF Tag(keyData, iv, ct) # SubSeq(data, Len(data) - 15, Len(data))
           THEN Failure("OperationError")
           ELSE Ok([i \in 1..Len(ct) |-> (ct[i] + 256 - Keystream(keyData, iv, i)) % 256]))

(***************************************************************************)
(* btoa and atob.                                                          *)
(***************************************************************************)
Base64Chars ==
  <<
    "A", "B", "C", "D", "E", "F", "G", "H", "I", "J", "K", "L", "M", "N",
    "O", "P", "Q", "R", "S", "T", "U", "V", "W", "X", "Y", "Z", "a", "b",
    "c", "d", "e", "f", "g", "h", "i", "j", "k", "l", "m", "n", "o", "p",
    "q", "r", "s", "t", "u", "v", "w", "x", "y", "z", "0", "1", "2", "3",
    "4", "5", "6", "7", "8", "9", "+", "/"
  >>

\* the character at place k (0..3) of the group that encodes the bytes
\* b1, b2, b3, of which n are there
Base64Char(b1, b2, b3, n, k) ==
  CASE k = 0 -> Base64Chars[(b1 \div 4) + 1]
    [] k = 1 -> Base64Chars[((b1 % 4) * 16) + (b2 \div 16) + 1]
    [] k = 2 -> IF n < 2 THEN "=" ELSE Base64Chars[((b2 % 16) * 4) + (b3 \div 64) + 1]
    [] k = 3 -> IF n < 3 THEN "=" ELSE Base64Chars[(b3 % 64) + 1]

\* btoa(bin), for the char codes of the binary string
btoa(bin) ==
  [i \in 1..(4 * ((Len(bin) + 2) \div 3)) |->
     LET g == (i - 1) \div 4
         n == Min(3, Len(bin) - (3 * g))
     IN  Base64Char(bin[(3 * g) + 1],
                    IF n >= 2 THEN bin[(3 * g) + 2] ELSE 0,
                    IF n >= 3 THEN bin[(3 * g) + 3] ELSE 0,
                    n, (i - 1) % 4)]

\* the six bits a base64 character stands for, -1 for any other character
Sextet(c) ==
  IF \E d \in 1..64 : Base64Chars[d] = c
    THEN (CHOOSE d \in 1..64 : Base64Chars[d] = c) - 1
    ELSE -1

\* the text without the padding that atob allows at the end
Unpadded(text) ==
  IF Len(text) % 4 = 0 /\ Len(text) > 0 /\ text[Len(text)] = "="
    THEN IF text[Len(text) - 1] = "=" THEN SubSeq(text, 1, Len(text) - 2)
                                      ELSE SubSeq(text, 1, Len(text) - 1)
    ELSE text

\* the bytes that the six-bit values s stand for: three for every four,
\* one for two left over, two for three left over
DecodeSextets(s) ==
  [i \in 1..((3 * (Len(s) \div 4)) + (IF Len(s) % 4 >= 2 THEN (Len(s) % 4) - 1 ELSE 0)) |->
     LET g == 4 * ((i - 1) \div 3)
     IN  CASE (i - 1) % 3 = 0 -> (s[g + 1] * 4) + (s[g + 2] \div 16)
           [] (i - 1) % 3 = 1 -> ((s[g + 2] % 16) * 16) + (s[g + 3] \div 4)
           [] (i - 1) % 3 = 2 -> ((s[g + 3] % 4) * 64) + s[g + 4]]

\* atob(text): the char codes of the binary string, or InvalidCharacterError
atob(text) ==
  With(Unpadded(text), LAMBDA t :
    With([i \in 1..Len(t) |-> Sextet(t[i])], LAMBDA s :
      IF Len(t) % 4 = 1 \/ \E i \in 1..Len(t) : s[i] < 0
        THEN Failure("InvalidCharacterError")
        ELSE Ok(DecodeSextets(s))))

(***************************************************************************)
(* TextEncoder and TextDecoder: UTF-8.  The characters of the model are    *)
(* the printable ASCII characters (the grave accent written U+0060) and    *)
(* U+00E9; U+FFFD is what the decoder puts for bytes that are no UTF-8.    *)
(***************************************************************************)
Ascii ==
  <<
    " ", "!", "\"", "#", "$", "%", "&", "'", "(", ")", "*", "+", ",", "-",
    ".", "/", "0", "1", "2", "3", "4", "5", "6", "7", "8", "9", ":", ";",
    "<", "=", ">", "?", "@", "A", "B", "C", "D", "E", "F", "G", "H", "I",
    "J", "K", "L", "M", "N", "O", "P", "Q", "R", "S", "T", "U", "V", "W",
    "X", "Y", "Z", "[", "\\", "]", "^", "_", "U+0060", "a", "b", "c", "d",
    "e", "f", "g", "h", "i", "j", "k", "l", "m", "n", "o", "p", "q", "r",
    "s", "t", "u", "v", "w", "x", "y", "z", "{", "|", "}", "~"
  >>

CodePoint(c) ==
  IF c = "U+00E9" THEN 233
  ELSE IF c = "U+FFFD" THEN 65533
  ELSE 31 + (CHOOSE i \in 1..95 : Ascii[i] = c)

CharOf(cp) ==
  IF cp >= 32 /\ cp <= 126 THEN Ascii[cp - 31]
  ELSE IF cp = 233 THEN "U+00E9"
  ELSE "U+FFFD"

Utf8(cp) ==
  IF cp < 128 THEN <<cp>>
  ELSE IF cp < 2048 THEN <<192 + (cp \div 64), 128 + (cp % 64)>>
  ELSE <<224 + (cp \div 4096), 128 + ((cp \div 64) % 64), 128 + (cp % 64)>>

\* new TextEncoder().encode(text)
Encode(text) == Join([i \in 1..Len(text) |-> Utf8(CodePoint(text[i]))])

\* new TextDecoder().decode(bytes), for sequences of one and two bytes: a
\* byte 194..223 and the continuation byte after it make one character, any
\* other byte above 127 is replaced
Decode(bytes) ==
  LET Continues(i) ==
        /\ i > 1 /\ bytes[i] >= 128 /\ bytes[i] < 192
        /\ bytes[i - 1] >= 194 /\ bytes[i - 1] < 224
      starts == SelectSeq([i \in 1..Len(bytes) |-> i], LAMBDA i : ~Continues(i))
  IN  [j \in 1..Len(starts) |->
         LET i == starts[j] IN
         IF bytes[i] < 128 THEN CharOf(bytes[i])
         ELSE IF i < Len(bytes) /\ Continues(i + 1)
           THEN CharOf(((bytes[i] - 192) * 64) + (bytes[i + 1] - 128))
           ELSE "U+FFFD"]

(***************************************************************************)
(* JSON.  A value is a number, a string, an array, an object (its members  *)
(* in insertion order), null, or undefined, which JSON cannot express.  It *)
(* is written as the pair of its kind and its content.                     *)
(***************************************************************************)
JUndefined == <<"undefined", <<>>>>
JNull == <<"null", <<>>>>
JNum(n) == <<"number", n>>
JStr(text) == <<"string", text>>
JArr(items) == <<"array", items>>
JObj(members) == <<"object", members>>

\* the decimal numeral of a natural number
RECURSIVE Decimal(_)
Decimal(n) ==
  IF n < 10 THEN <<HexDigits[n + 1]>> ELSE Decimal(n \div 10) \o <<HexDigits[(n % 10) + 1]>>

\* JSON.stringify(v): a member whose value is undefined is left out, an
\* undefined item becomes null.  No string of the model needs an escape.
RECURSIVE JsonStringify(_)
JsonStringify(v) ==
  CASE v[1] = "number" -> Decimal(v[2])
    [] v[1] = "string" -> <<"\"">> \o v[2] \o <<"\"">>
    [] v[1] = "null" -> <<"n", "u", "l", "l">>
    [] v[1] = "array" ->
         LET parts == [i \in 1..Len(v[2]) |->
                         (IF i > 1 THEN <<",">> ELSE <<>>)
                           \o (IF v[2][i][1] = "undefined" THEN <<"n", "u", "l", "l">>
                               ELSE JsonStringify(v[2][i]))]
         IN  <<"[">> \o Join(parts) \o <<"]">>
    [] v[1] = "object" ->
         LET ms == SelectSeq(v[2], LAMBDA m : m[2][1] # "undefined")
             parts == [i \in 1..Len(ms) |->
                         (IF i > 1 THEN <<",">> ELSE <<>>)
                           \o <<"\"">> \o ms[i][1] \o <<"\"", ":">>
                           \o JsonStringify(ms[i][2])]
         IN  <<"{">> \o Join(parts) \o <<"}">>

\* what JSON can express of v
RECURSIVE Prune(_)
Prune(v) ==
  CASE v[1] = "array" ->
         JArr([i \in 1..Len(v[2]) |->
                 IF v[2][i][1] = "undefined" THEN JNull ELSE Prune(v[2][i])])
    [] v[1] = "object" ->
         LET ms == SelectSeq(v[2], LAMBDA m : m[2][1] # "undefined")
         IN  JObj([i \in 1..Len(ms) |-> <<ms[i][1], Prune(ms[i][2])>>])
    [] OTHER -> v

\* v is JSON-serializable: JSON can express all of it
IsJson(v) == v[1] # "undefined" /\ Prune(v) = v

\* obj[name], for a member the object has
Member(obj, name) ==
  LET i == CHOOSE i \in 1..Len(obj[2]) : obj[2][i][1] = name IN obj[2][i][2]

(***************************************************************************)
(* The data that is shared, types/airfield.ts and types/share.ts.  The     *)
(* airfields and flights of the model have an id and a name.               *)
(***************************************************************************)
Airfield(id, name) == JObj(<< <<<<"i", "d">>, JStr(id)>>, <<<<"n", "a", "m", "e">>, JStr(name)>> >>)
FlightPath(id, name) == JObj(<< <<<<"i", "d">>, JStr(id)>>, <<<<"n", "a", "m", "e">>, JStr(name)>> >>)

AirfieldLists ==
  { <<>>,
    <<Airfield(<<"a", "1">>, <<"L", "F", "P", "G">>)>>,
    <<Airfield(<<"a", "1">>, <<"L", "F", "P", "G">>), Airfield(<<"a", "2">>, <<"M", "U+00E9", "r", "e">>)>> }
FlightPathLists == { <<>>, <<FlightPath(<<"f", "1">>, <<"g", "p", "x">>)>> }
Titles == {JUndefined, JStr(<<"T", "r", "i", "p">>)}

\* new Date().toISOString() in the browser that shares
CreatedAt == <<"2", "0", "2", "5", "-", "0", "1", "-", "0", "1", "T", "0", "0", ":", "0", "0", ":", "0", "0", ".", "0", "0", "0", "Z">>

\* the ShareableData createShare builds
ShareableData(airfields, flightPaths, title) ==
  JObj(<< <<<<"v", "e", "r", "s", "i", "o", "n">>, JStr(<<"1", ".", "0">>)>>,
          <<<<"a", "i", "r", "f", "i", "e", "l", "d", "s">>, JArr(airfields)>>,
          <<<<"f", "l", "i", "g", "h", "t", "P", "a", "t", "h", "s">>, JArr(flightPaths)>>,
          <<<<"m", "e", "t", "a", "d", "a", "t", "a">>,
            JObj(<< <<<<"c", "r", "e", "a", "t", "e", "d", "A", "t">>, JStr(CreatedAt)>>,
                    <<<<"t", "o", "t", "a", "l", "A", "i", "r", "f", "i", "e", "l", "d", "s">>, JNum(Len(airfields))>>,
                    <<<<"t", "o", "t", "a", "l", "F", "l", "i", "g", "h", "t", "s">>, JNum(Len(flightPaths))>>,
                    <<<<"t", "i", "t", "l", "e">>, title>> >>)>> >>)

\* the values the model encrypts
Payloads ==
  {ShareableData(a, f, t) : a \in AirfieldLists, f \in FlightPathLists, t \in Titles}
    \cup {JNum(2025), JStr(<<"M", "U+00E9", "r", "e">>), JArr(<<JNull>>)}

\* JSON.parse(text).  The model has no parser: it knows the JSON values of
\* its payloads and their texts, and finds the value by its text.
JsonValues == {Prune(p) : p \in Payloads}
JsonTexts == [v \in JsonValues |-> JsonStringify(v)]
JsonParse(text) ==
  IF \E v \in JsonValues : JsonTexts[v] = text
    THEN Ok(CHOOSE v \in JsonValues : JsonTexts[v] = text)
    ELSE Failure("SyntaxError")

(***************************************************************************)
(* encryptData and decryptData.                                            *)
(***************************************************************************)
chunkSize == 8192

\* the loop that builds binaryString from chunks of chunkSize bytes
RECURSIVE BinaryString(_, _)
BinaryString(combined, i) ==
  IF i >= Len(combined) THEN <<>>
  ELSE SubSeq(combined, i + 1, Min(i + chunkSize, Len(combined)))
         \o BinaryString(combined, i + chunkSize)

\* the data as they are, neither encrypted nor encoded
encryptDataNot(data, key, iv) == Ok(JsonStringify(data))

\* encryptData(data, key), when crypto.getRandomValues gave the iv
encryptData(data, key, iv) ==
  IF ~ImportKeyAccepts(key) THEN Failure("DataError")
  ELSE With(KeyData(key), LAMBDA cryptoKey :
         With(Encode(JsonStringify(data)), LAMBDA dataBuffer :
           With(AesGcmEncrypt(cryptoKey, iv, dataBuffer), LAMBDA encryptedBuffer :
             With(iv \o encryptedBuffer, LAMBDA combined :
               With(BinaryString(combined, 0), LAMBDA binaryString :
                 Ok(btoa(binaryString)))))))

\* the iv taken to be the first 16 bytes
SliceIv16(combined) == SubSeq(combined, 1, Min(16, Len(combined)))

\* combined.slice(0, 12)
SliceIv(combined) == SubSeq(combined, 1, Min(12, Len(combined)))

\* combined.slice(12)
SliceEncrypted(combined) == SubSeq(combined, 13, Len(combined))

\* decryptData(encryptedData, key): the parsed value, or the error thrown
decryptData(encryptedData, key) ==
  IF ~ImportKeyAccepts(key) THEN Failure("DataError")
  ELSE With(KeyData(key), LAMBDA cryptoKey :
         With(atob(encryptedData), LAMBDA combined :
           IF ~combined.ok THEN combined
           ELSE With(SliceIv(combined.value), LAMBDA iv :
                  With(SliceEncrypted(combined.value), LAMBDA encrypted :
                    With(AesGcmDecrypt(cryptoKey, iv, encrypted), LAMBDA decryptedBuffer :
                      IF ~decryptedBuffer.ok THEN decryptedBuffer
                      ELSE With(Decode(decryptedBuffer.value), LAMBDA decryptedString :
                             JsonParse(decryptedString)))))))

(***************************************************************************)
(* The encryption client at work: a browser gets a key, from               *)
(* generateEncryptionKey or from a link it was given, encrypts one         *)
(* payload, and a browser decrypts the result with the key it holds then.  *)
(***************************************************************************)
\* the outcomes of crypto.getRandomValues(new Uint8Array(n)) the model draws from
RandomValues(n) ==
  {[i \in 1..n |-> (113 * k + 31 * i) % 256] : k \in {1, 2}} \cup {[i \in 1..n |-> i - 1]}

ToUpperCase(text) ==
  [i \in 1..Len(text) |->
     IF DigitValue(text[i]) >= 10 THEN UpperHexDigits[DigitValue(text[i]) + 1] ELSE text[i]]

\* keys that arrive in the fragment of a link: a generated key as it is, in
\* upper case, with its first half in upper case, and with another last digit
SomeKey == generateEncryptionKey([i \in 1..16 |-> (113 + 31 * i) % 256])
GivenKeys ==
  { SomeKey, ToUpperCase(SomeKey),
    SubSeq(ToUpperCase(SomeKey), 1, 16) \o SubSeq(SomeKey, 17, 32),
    [SomeKey EXCEPT ![32] = "0"] }

GenerateKey ==
  /\ heldKey = NoKey
  /\ \E array \in RandomValues(16) :
       heldKey' = [text |-> generateEncryptionKey(array), from |-> "generateEncryptionKey"]
  /\ UNCHANGED <<enc, dec>>

GiveKey(k) ==
  /\ dec = NoCall
  /\ heldKey' = [text |-> k, from |-> "link"]
  /\ UNCHANGED <<enc, dec>>

Encrypt(data) ==
  /\ heldKey # NoKey
  /\ enc = NoCall
  /\ \E iv \in RandomValues(12) :
       enc' = [called |-> TRUE, data |-> data, key |-> heldKey.text, iv |-> iv,
               result |-> encryptData(data, heldKey.text, iv)]
  /\ UNCHANGED <<heldKey, dec>>

Decrypt ==
  /\ heldKey # NoKey
  /\ enc # NoCall /\ enc.result.ok
  /\ dec = NoCall
  /\ dec' = [called |-> TRUE, encryptedData |-> enc.result.value, key |-> heldKey.text,
              result |-> decryptData(enc.result.value, heldKey.text)]
  /\ UNCHANGED <<heldKey, enc>>

store == <<shares, now, nextSweep, res, link, advances, creates, unswept, browsers, apps>>

NextCrypto ==
  \/ GenerateKey /\ UNCHANGED store
  \/ \E k \in GivenKeys : GiveKey(k) /\ UNCHANGED store
  \/ \E data \in Payloads : Encrypt(data) /\ UNCHANGED store
  \/ Decrypt /\ UNCHANGED store

SpecCrypto == Init /\ [][NextCrypto]_vars

(***************************************************************************)
(* services/shareService.ts and pages/SharedViewPage.tsx: one browser      *)
(* shares, other browsers share data of their own, one browser opens a     *)
(* link.  A call of fetch is one step with the handler of the store: what  *)
(* a browser does before and after it touches nothing but its own state.   *)
(***************************************************************************)
\* text contains piece
Contains(text, piece) ==
  \E t \in {text}, p \in {piece} :
    \/ Len(p) = 0
    \/ /\ Len(p) <= Len(t)
       /\ \E i \in 1..(Len(t) - Len(p) + 1) :
            t[i] = p[1] /\ SubSeq(t, i, i + Len(p) - 1) = p

\* SHARE_API_URL, without its origin
SHARE_API_URL == <<"/", "a", "p", "i", "/", "s", "h", "a", "r", "e", "s">>

\* expiresIn: 30 * 24 * 60 * 60
DefaultExpiresIn == 30 * 24 * 60 * 60

\* JSON.stringify({ encryptedData, expiresIn: 30 * 24 * 60 * 60 })
CreateShareBody(encryptedData) ==
  JsonStringify(JObj(<< <<<<"e", "n", "c", "r", "y", "p", "t", "e", "d", "D", "a", "t", "a">>, JStr(encryptedData)>>,
                        <<<<"e", "x", "p", "i", "r", "e", "s", "I", "n">>, JNum(DefaultExpiresIn)>> >>))

\* the request of createShare as fetch sends it
CreateShareRequest(encryptedData) ==
  [method |-> "POST", url |-> SHARE_API_URL, body |-> CreateShareBody(encryptedData)]

\* the same request as the handler of the store reads it
CreateShareParsed(encryptedData) == Request(Str(encryptedData), Num(DefaultExpiresIn))

\* `${baseUrl}/share/${result.id}#${encryptionKey}`, without its origin
ShareUrl(id, encryptionKey) ==
  [path |-> <<"/", "s", "h", "a", "r", "e", "/">> \o id, hash |-> <<"#">> \o encryptionKey]

\* createShare from the response on: the object returned, or the error thrown
CreateShareResult(response, encryptionKey) ==
  IF response.status \notin 200..299 THEN Failure("Failed to create share")
  ELSE Ok([url |-> ShareUrl(response.body.id, encryptionKey),
           key |-> encryptionKey, id |-> response.body.id])

\* createShare(airfields, flightPaths, title) in the sharing browser, with
\* the outcomes of crypto.getRandomValues in the browser and of
\* crypto.randomBytes in the store
CreateShareWith(airfields, flightPaths, title, encryptionKey, iv, id) ==
  \E shareData \in {ShareableData(airfields, flightPaths, title)} :
    \E encryptedData \in {encryptData(shareData, encryptionKey, iv).value} :
      \E body \in {CreateShareParsed(encryptedData)} :
        /\ Post(body, id)
        /\ wire' = wire \cup {CreateShareRequest(encryptedData)}
        /\ shared' = [called |-> TRUE, airfields |-> airfields,
                      flightPaths |-> flightPaths, shareData |-> shareData,
                      key |-> encryptionKey, at |-> now,
                      result |-> CreateShareResult(PostResponse(body, id, now),
                                                   encryptionKey)]

\* what crypto.getRandomValues gives the sharing browser for its key and
\* for its iv: two runs of its generator
ShareRandomValues ==
  {[array |-> [i \in 1..16 |-> (113 * k + 31 * i) % 256],
    iv |-> [i \in 1..12 |-> (113 * k + 31 * i + 7) % 256]] : k \in {1, 2}}

CreateShare(airfields, flightPaths, title) ==
  /\ shared = NoShare
  /\ \E random \in ShareRandomValues, id \in IssuableIds :
       \E encryptionKey \in {generateEncryptionKey(random.array)} :
         CreateShareWith(airfields, flightPaths, title, encryptionKey, random.iv, id)
  /\ UNCHANGED <<link, unswept, crypto, page, apps>>

\* what another browser shares, and the key and iv it drew
OtherData ==
  ShareableData(<<Airfield(<<"a", "1">>, <<"L", "F", "P", "G">>)>>,
                <<FlightPath(<<"f", "1">>, <<"g", "p", "x">>)>>, JUndefined)
OtherKey == generateEncryptionKey([i \in 1..16 |-> (7 * i + 3) % 256])
OtherEncryptedData == encryptData(OtherData, OtherKey, [i \in 1..12 |-> 255 - i]).value

\* createShare in another browser, while the link of the sharing browser is
\* out
OtherCreateShare ==
  /\ shared # NoShare
  /\ \E id \in IssuableIds : Post(CreateShareParsed(OtherEncryptedData), id)
  /\ wire' = wire \cup {CreateShareRequest(OtherEncryptedData)}
  /\ UNCHANGED <<link, unswept, crypto, shared, page, apps>>

\* location.hash.substring(1)
Substring1(hash) == IF Len(hash) = 0 THEN <<>> ELSE Tail(hash)

\* the fragments a link is opened with: the one of the link as it was given,
\* the key in upper case, no fragment, an empty fragment, a key cut short by
\* one digit, a key longer by one digit, a key with a letter that is no
\* hexadecimal digit, and a well-formed key that is not the one of the link
Fragments(k) ==
  { <<"#">> \o k, <<"#">> \o ToUpperCase(k), <<>>, <<"#">>,
    <<"#">> \o SubSeq(k, 1, 31), <<"#">> \o k \o <<"0">>,
    <<"#">> \o [k EXCEPT ![7] = "g"],
    <<"#">> \o [k EXCEPT ![32] = IF k[32] = "0" THEN "1" ELSE "0"] }

\* the links the viewing browser opens: the link createShare returned with
\* each of these fragments, a link to an identifier the store never issued,
\* and the route without its parameter
Links ==
  LET k == IF shared # NoShare /\ shared.result.ok THEN shared.key ELSE SomeKey
      own == IF shared # NoShare /\ shared.result.ok
               THEN {[shareId |-> shared.result.value.id, hash |-> h] : h \in Fragments(k)}
               ELSE {}
  IN  own \cup {[shareId |-> UnissuedId, hash |-> <<"#">> \o k],
                [shareId |-> <<>>, hash |-> <<"#">> \o k]}

\* the request of getShare(shareId) as fetch sends it
GetShareRequest(shareId) ==
  [method |-> "GET", url |-> SHARE_API_URL \o <<"/">> \o shareId, body |-> <<>>]

\* getShare from the response on: result.encryptedData, or the error thrown
GetShareResult(response) ==
  IF response.status \notin 200..299
    THEN IF response.status = 404
           THEN Failure("Share not found or has expired")
           ELSE Failure("Failed to retrieve share")
    ELSE Ok(response.body.encryptedData)

\* !encryptionKey || !isValidEncryptionKey(encryptionKey)
KeyRefused(encryptionKey) ==
  Len(encryptionKey) = 0 \/ ~isValidEncryptionKey(encryptionKey)

\* an error path that leaves the spinner on
FailStillLoading(p, message) == [p EXCEPT !.error = <<message>>]

\* setError(message); setLoading(false)
Fail(p, message) == [p EXCEPT !.error = <<message>>, !.loading = FALSE]

\* the run of loadSharedData that an effect of SharedViewPage starts, up to
\* its first await
Load(shareId, hash) ==
  /\ \E started \in {[page EXCEPT !.opened = TRUE, !.shareId = shareId, !.hash = hash,
                                   !.loads = @ + 1]} :
     \E ended \in {[started EXCEPT !.settled = [run |-> started.loads, shareId |-> shareId,
                                                hash |-> hash, status |-> 0,
                                                thrown |-> ""]]} :
       IF Len(shareId) = 0
         THEN /\ page' = Fail(ended, "share.error.invalidLink")
              /\ UNCHANGED wire
         ELSE IF KeyRefused(Substring1(hash))
           THEN /\ page' = Fail(ended, "share.error.invalidKey")
                /\ UNCHANGED wire
           ELSE /\ page' = [started EXCEPT !.pending = Append(@, [run |-> started.loads,
                                                                  shareId |-> shareId,
                                                                  hash |-> hash])]
                /\ wire' = wire \cup {GetShareRequest(shareId)}
  /\ UNCHANGED <<shares, now, nextSweep, res, advances, creates, link, unswept, crypto, shared, apps>>

\* SharedViewPage is mounted on the route of a link, and its effect runs
LoadSharedData(shareId, hash) ==
  /\ page = NoPage
  /\ Load(shareId, hash)

\* the data the sharing browser shares
ShareArguments ==
  { <<<<Airfield(<<"a", "1">>, <<"L", "F", "P", "G">>)>>, <<>>, JUndefined>>,
    <<<<Airfield(<<"a", "1">>, <<"L", "F", "P", "G">>),
        Airfield(<<"a", "2">>, <<"M", "U+00E9", "r", "e">>)>>,
      <<FlightPath(<<"f", "1">>, <<"g", "p", "x">>)>>, JStr(<<"T", "r", "i", "p">>)>> }

\* the calls of decryptData with what the sharing browser posted and the
\* key of its link, or that key with its last digit changed
DecryptCalls ==
  UNION { LET k == generateEncryptionKey(r.array)
              e == encryptData(ShareableData(a[1], a[2], a[3]), k, r.iv).value
          IN  {<<e, k>>, <<e, [k EXCEPT ![32] = IF k[32] = "0" THEN "1" ELSE "0"]>>}
          : a \in ShareArguments, r \in ShareRandomValues }

\* decryptData(encryptedData, key) for these calls, computed once
Decrypted == [c \in DecryptCalls |-> decryptData(c[1], c[2])]

\* loadSharedData from the response of the store on: what decryptData
\* returned, or the error caught
Loaded(response, encryptionKey) ==
  LET encryptedData == GetShareResult(response) IN
    IF encryptedData.ok
      THEN IF <<encryptedData.value, encryptionKey>> \in DecryptCalls
             THEN Decrypted[<<encryptedData.value, encryptionKey>>]
             ELSE decryptData(encryptedData.value, encryptionKey)
    ELSE encryptedData

\* the catch block with one message for every error
CaughtAsNotFound(e) == {"Share not found or has expired"}

\* err instanceof Error ? err.message : t('share.error.loading'), for the
\* error e caught: the Error of getShare has the message it was made with;
\* the DOMException OperationError of crypto.subtle.decrypt has an empty
\* message or a text, by the browser, and is no Error in an old one
Caught(e) ==
  IF e = "OperationError"
    THEN {"", "The operation failed for an operation-specific reason",
          "share.error.loading"}
    ELSE {e}

\* seq without its item at place i
Without(seq, i) == SubSeq(seq, 1, i - 1) \o SubSeq(seq, i + 1, Len(seq))

\* the store answers the request of getShare of the pending run at place i,
\* and that run of loadSharedData goes on from `await getShare(shareId)` to
\* its end
ResumeLoad(i) ==
  /\ Get(page.pending[i].shareId)
  /\ \E response \in {GetResponse(shares, page.pending[i].shareId, now)} :
     \E decrypted \in {Loaded(response, Substring1(page.pending[i].hash))} :
     \E ended \in {[page EXCEPT !.pending = Without(@, i), !.at = now,
                                 !.settled = [run |-> page.pending[i].run,
                                              shareId |-> page.pending[i].shareId,
                                              hash |-> page.pending[i].hash,
                                              status |-> response.status,
                                              thrown |-> IF decrypted.ok THEN ""
                                                         ELSE decrypted.error]]} :
       IF decrypted.ok
         THEN page' = [ended EXCEPT !.sharedData = decrypted.value, !.loading = FALSE]
         ELSE \E message \in Caught(decrypted.error) : page' = Fail(ended, message)
  /\ UNCHANGED <<link, unswept, crypto, wire, shared, apps>>

LoadSharedDataResume == \E i \in 1..Len(page.pending) : ResumeLoad(i)

\* the time passes by a second, or by more than the thirty days of a share
ShareClockSteps == {Ms(1000), 31 * 24 * 60 * 60 * Ms(1000)}

NextShare ==
  \/ \E d \in ShareClockSteps : AdvanceClock(d)
  \/ Cleanup
  \/ \E a \in ShareArguments : CreateShare(a[1], a[2], a[3])
  \/ OtherCreateShare
  \/ \E l \in Links : LoadSharedData(l.shareId, l.hash)
  \/ LoadSharedDataResume

SpecShare == Init /\ [][NextShare]_vars

(***************************************************************************)
(* SharedViewPage while its route changes: the component stays mounted,    *)
(* its state is kept, and the effect runs again for the new shareId or the *)
(* new fragment.  No run of loadSharedData is cancelled.                   *)
(***************************************************************************)
\* the effect runs again: shareId or location.hash is another than at the
\* last run
Navigate(shareId, hash) ==
  /\ page.opened
  /\ <<shareId, hash>> # <<page.shareId, page.hash>>
  /\ page.loads < MaxLoads
  /\ Load(shareId, hash)

\* the links of this browser: the link createShare returned, the same with
\* a key cut short by one digit and with another well-formed key, and a link
\* to an identifier the store never issued
ViewLinks ==
  LET k == IF shared # NoShare /\ shared.result.ok THEN shared.key ELSE SomeKey
      own == IF shared # NoShare /\ shared.result.ok
               THEN {[shareId |-> shared.result.value.id, hash |-> h] :
                       h \in { <<"#">> \o k, <<"#">> \o SubSeq(k, 1, 31),
                               <<"#">> \o [k EXCEPT ![32] = IF k[32] = "0" THEN "1" ELSE "0"] }}
               ELSE {}
  IN  own \cup {[shareId |-> UnissuedId, hash |-> <<"#">> \o k],
                [shareId |-> <<>>, hash |-> <<"#">> \o k]}

\* what the component returns: the spinner, the error view or the view of
\* the shared data.  "" and null are falsy.
Render(p) ==
  IF p.loading THEN "loading"
  ELSE IF (p.error # <<>> /\ p.error # <<"">>) \/ p.sharedData = JNull THEN "error"
  ELSE "data"

NextView ==
  \/ \E a \in ShareArguments : CreateShare(a[1], a[2], a[3])
  \/ \E l \in ViewLinks : LoadSharedData(l.shareId, l.hash)
  \/ \E l \in ViewLinks : Navigate(l.shareId, l.hash)
  \/ LoadSharedDataResume

SpecView == Init /\ [][NextView]_vars

\* fetch settles: a run of loadSharedData that waits for getShare goes on
SpecViewFair == SpecView /\ WF_vars(LoadSharedDataResume)

(***************************************************************************)
(* The selection of HomePage and of SharedViewPage.  An airfield or flight *)
(* that is selected is written as the tuple of its id, null as <<>>.       *)
(***************************************************************************)
Pages == {"home", "shared"}
SelectableAirfields == {"a1", "a2"}
SelectableFlights == {"f1", "f2"}
\* the tabs of the mobile layout; SharedViewPage has no statistics
TabsOf(p) ==
  IF p = "home" THEN {"map", "airfields", "flights", "statistics"}
  ELSE {"map", "airfields", "flights"}

\* what the selection handlers leave alone
aroundSelection ==
  <<shares, now, nextSweep, res, link, advances, creates, unswept, crypto, browsers,
    history, dialog, airfieldStore>>

handleAirfieldSelect(p, airfield) ==
  /\ selection' = [selection EXCEPT ![p].selectedAirfield = <<airfield>>,
                                     ![p].selectedFlightPath = <<>>]
  /\ UNCHANGED aroundSelection

handleFlightSelect(p, flight, isMobile) ==
  /\ selection' = [selection EXCEPT ![p].selectedFlightPath = <<flight>>,
                                     ![p].selectedAirfield = <<>>,
                                     ![p].activeTab = IF isMobile THEN "map" ELSE @]
  /\ UNCHANGED aroundSelection

\* onUploadComplete of FlightUploadDialog, which HomePage alone renders
handleFlightUploadComplete(flight) ==
  /\ selection' = [selection EXCEPT !["home"].selectedFlightPath = <<flight>>,
                                     !["home"].activeTab = "map"]
  /\ UNCHANGED aroundSelection

\* onClose of AirfieldDetails
CloseAirfieldDetails(p) ==
  /\ selection[p].selectedAirfield # <<>>
  /\ selection' = [selection EXCEPT ![p].selectedAirfield = <<>>]
  /\ UNCHANGED aroundSelection

\* onClose of FlightDetails
CloseFlightDetails(p) ==
  /\ selection[p].selectedFlightPath # <<>>
  /\ selection' = [selection EXCEPT ![p].selectedFlightPath = <<>>]
  /\ UNCHANGED aroundSelection

\* onValueChange={setActiveTab} of the mobile layout
SetActiveTab(p, tab) ==
  /\ selection' = [selection EXCEPT ![p].activeTab = tab]
  /\ UNCHANGED aroundSelection

NextSelection ==
  \/ \E p \in Pages, airfield \in SelectableAirfields : handleAirfieldSelect(p, airfield)
  \/ \E p \in Pages, flight \in SelectableFlights, isMobile \in BOOLEAN :
       handleFlightSelect(p, flight, isMobile)
  \/ \E flight \in SelectableFlights : handleFlightUploadComplete(flight)
  \/ \E p \in Pages : CloseAirfieldDetails(p)
  \/ \E p \in Pages : CloseFlightDetails(p)
  \/ \E p \in Pages : \E tab \in TabsOf(p) : SetActiveTab(p, tab)

SpecSelection == Init /\ [][NextSelection]_vars

(***************************************************************************)
(* useAirfieldStore, store/airfield-store.ts.  Each action of the store is *)
(* an operator on its state; the components call them with the id of an    *)
(* airfield or flight they show, and with flights whose departure and      *)
(* arrival are airfields of the store.                                     *)
(***************************************************************************)
\* what uuidv4() returns
Uuids == {"u1", "u2"}

\* { ...airfield, ...updates }
Spread(airfield, updates) ==
  [f \in DOMAIN airfield |-> IF f \in DOMAIN updates THEN updates[f] ELSE airfield[f]]

\* array.map(item => item.id === id ? change(item) : item)
MapWhereId(array, id, change(_)) ==
  [i \in 1..Len(array) |-> IF array[i].id = id THEN change(array[i]) ELSE array[i]]

\* array.filter(item => item.id !== id)
FilterNotId(array, id) == SelectSeq(array, LAMBDA item : item.id # id)

addAirfield(state, airfield, uuid) ==
  [state EXCEPT !.airfields = Append(@, [id |-> uuid, name |-> airfield.name,
                                         visited |-> airfield.visited,
                                         planned |-> airfield.planned])]

updateAirfield(state, id, updates) ==
  [state EXCEPT !.airfields = MapWhereId(@, id, LAMBDA airfield : Spread(airfield, updates))]

deleteAirfield(state, id) ==
  [state EXCEPT !.airfields = FilterNotId(@, id),
                !.homeAirfieldId = IF state.homeAirfieldId = <<id>> THEN <<>> ELSE @]

toggleVisited(state, id) ==
  [state EXCEPT !.airfields =
     MapWhereId(@, id, LAMBDA airfield : [airfield EXCEPT !.visited = ~airfield.visited])]

togglePlanned(state, id) ==
  [state EXCEPT !.airfields =
     MapWhereId(@, id, LAMBDA airfield : [airfield EXCEPT !.planned = ~airfield.planned])]

setHomeAirfield(state, id) == [state EXCEPT !.homeAirfieldId = id]

addFlightPath(state, flightPath, uuid) ==
  [state EXCEPT !.flightPaths = Append(@, [id |-> uuid, name |-> flightPath.name,
                                           departure |-> flightPath.departure,
                                           arrival |-> flightPath.arrival])]

deleteFlightPath(state, id) == [state EXCEPT !.flightPaths = FilterNotId(@, id)]

\* the ids of the items of an array
Ids(array) == {array[i].id : i \in 1..Len(array)}

\* what the forms of the application pass to the store
AirfieldForms == {[name |-> "LFPG", visited |-> FALSE, planned |-> FALSE]}
AirfieldUpdates == {[name |-> "LFPO"], [visited |-> TRUE, planned |-> FALSE]}
\* a flight with no airfield, or with airfields of the store
FlightForms(state) ==
  {[name |-> "gpx", departure |-> d, arrival |-> a] :
     d \in {<<>>} \cup {<<id>> : id \in Ids(state.airfields)},
     a \in {<<>>} \cup {<<id>> : id \in Ids(state.airfields)}}

\* what the store leaves alone
aroundStore ==
  <<shares, now, nextSweep, res, link, advances, creates, unswept, crypto, browsers,
    history, dialog, selection>>

\* set(...) of the store
Set(state) ==
  /\ airfieldStore' = state
  /\ UNCHANGED aroundStore

NextStore ==
  \/ /\ Len(airfieldStore.airfields) < MaxAirfields
     /\ \E airfield \in AirfieldForms, uuid \in Uuids :
          Set(addAirfield(airfieldStore, airfield, uuid))
  \/ \E id \in Ids(airfieldStore.airfields), updates \in AirfieldUpdates :
       Set(updateAirfield(airfieldStore, id, updates))
  \/ \E id \in Ids(airfieldStore.airfields) : Set(deleteAirfield(airfieldStore, id))
  \/ \E id \in Ids(airfieldStore.airfields) : Set(toggleVisited(airfieldStore, id))
  \/ \E id \in Ids(airfieldStore.airfields) : Set(togglePlanned(airfieldStore, id))
  \/ \E id \in {<<>>} \cup {<<a>> : a \in Ids(airfieldStore.airfields)} :
       Set(setHomeAirfield(airfieldStore, id))
  \/ /\ Len(airfieldStore.flightPaths) < MaxFlightPaths
     /\ \E flightPath \in FlightForms(airfieldStore), uuid \in Uuids :
          Set(addFlightPath(airfieldStore, flightPath, uuid))
  \/ \E id \in Ids(airfieldStore.flightPaths) : Set(deleteFlightPath(airfieldStore, id))

SpecStore == Init /\ [][NextStore]_vars

(***************************************************************************)
(* ShareDialog, components/share/ShareDialog.tsx.  The dialog is closed by *)
(* its buttons, by Escape and by a click outside: all of them end in       *)
(* handleOpenChange(false), and only the Cancel button is disabled while a *)
(* request is under way.                                                   *)
(***************************************************************************)
\* what useAirfieldStore gives the dialog
StoredAirfields == <<Airfield(<<"a", "1">>, <<"L", "F", "P", "G">>)>>
StoredFlightPaths == <<FlightPath(<<"f", "1">>, <<"g", "p", "x">>)>>
totalItems == Len(StoredAirfields) + Len(StoredFlightPaths)

\* what the user types into the title field
ShareTitles == {<<>>, <<"T", "r", "i", "p">>}

\* what the dialog leaves alone
aroundDialog == <<link, unswept, crypto, page, history, selection, airfieldStore>>
storeService == <<shares, now, nextSweep, res, advances, creates, wire, shared>>

\* handleOpenChange(true)
OpenDialog ==
  /\ ~dialog.open
  /\ dialog' = [dialog EXCEPT !.open = TRUE]
  /\ UNCHANGED <<aroundDialog, storeService>>

\* handleOpenChange(false): the state is reset by a timer, 200 ms later
CloseDialog ==
  /\ dialog.open
  /\ dialog.timers < MaxTimers
  /\ dialog' = [dialog EXCEPT !.open = FALSE, !.timers = @ + 1]
  /\ UNCHANGED <<aroundDialog, storeService>>

\* the callback of setTimeout(..., 200)
ResetTimer ==
  /\ dialog.timers > 0
  /\ dialog' = [dialog EXCEPT !.timers = @ - 1, !.shareUrl = <<>>, !.shareTitle = <<>>,
                               !.error = <<>>, !.copied = FALSE]
  /\ UNCHANGED <<aroundDialog, storeService>>

\* onChange of the title field, which is shown while there is no link and
\* is disabled while loading
SetShareTitle(text) ==
  /\ dialog.open /\ dialog.shareUrl = <<>> /\ ~dialog.loading
  /\ dialog' = [dialog EXCEPT !.shareTitle = text]
  /\ UNCHANGED <<aroundDialog, storeService>>

\* handleCreateShare up to its await: the button is shown while there is no
\* link and is disabled while loading or with nothing to share
HandleCreateShare ==
  /\ dialog.open /\ dialog.shareUrl = <<>> /\ ~dialog.loading /\ totalItems # 0
  /\ dialog' = [dialog EXCEPT !.loading = TRUE, !.error = <<>>,
                               !.call = <<IF dialog.shareTitle = <<>> THEN JUndefined
                                                                    ELSE JStr(dialog.shareTitle)>>]
  /\ UNCHANGED <<aroundDialog, storeService>>

\* handleCreateShare from the await on, with the result of createShare
CreateShareSettled(result) ==
  [dialog EXCEPT !.call = <<>>, !.loading = FALSE,
                 !.shareUrl = IF result.ok THEN <<result.value.url>> ELSE @,
                 !.error = IF result.ok THEN @ ELSE <<"share.error.creation">>]

\* the store answers the request of createShare
HandleCreateShareResume ==
  /\ dialog.call # <<>>
  /\ \E random \in ShareRandomValues, id \in IssuableIds :
       \E encryptionKey \in {generateEncryptionKey(random.array)} :
         /\ CreateShareWith(StoredAirfields, StoredFlightPaths, dialog.call[1],
                            encryptionKey, random.iv, id)
         /\ dialog' = CreateShareSettled(shared'.result)
  /\ UNCHANGED aroundDialog

\* fetch rejects: the store is not reached
HandleCreateShareRejected ==
  /\ dialog.call # <<>>
  /\ dialog' = CreateShareSettled(Failure("TypeError"))
  /\ UNCHANGED <<aroundDialog, storeService>>

\* handleCopyLink, with navigator.clipboard.writeText resolving or rejecting
HandleCopyLink(written) ==
  /\ dialog.open /\ dialog.shareUrl # <<>>
  /\ written => dialog.copyTimers < MaxTimers
  /\ dialog' = IF written THEN [dialog EXCEPT !.copied = TRUE, !.copyTimers = @ + 1]
                          ELSE dialog
  /\ UNCHANGED <<aroundDialog, storeService>>

\* the callback of setTimeout(() => setCopied(false), 2000)
CopiedTimer ==
  /\ dialog.copyTimers > 0
  /\ dialog' = [dialog EXCEPT !.copyTimers = @ - 1, !.copied = FALSE]
  /\ UNCHANGED <<aroundDialog, storeService>>

NextDialog ==
  \/ OpenDialog
  \/ CloseDialog
  \/ ResetTimer
  \/ \E text \in ShareTitles : SetShareTitle(text)
  \/ HandleCreateShare
  \/ HandleCreateShareResume
  \/ HandleCreateShareRejected
  \/ \E written \in BOOLEAN : HandleCopyLink(written)
  \/ CopiedTimer

SpecDialog == Init /\ [][NextDialog]_vars


(***************************************************************************)
(* The claims.                                                             *)
(***************************************************************************)
\* 30 days and n seconds, in clock ticks
ThirtyDays == 30 * 24 * 60 * 60 * Ms(1000)
Seconds(n) == n * Ms(1000)

\* C1: in every reachable state and for every identifier, a stored record
\* with expiresAt <= now (the instant now = expiresAt included) is answered
\* 404 by GET /api/shares/{id}, whether or not the sweep has run.
C1_ExpiredNeverReturned ==
  \A id \in DOMAIN shares :
    (shares[id].expiresAt.t = "number" /\ shares[id].expiresAt.n <= now)
      => GetResponse(shares, id, now).status = 404

\* C2: whenever createShare answers 201 to a body whose expiresIn is omitted
\* or positive, a getShare handled immediately afterwards with the returned
\* identifier answers 200 with exactly the submitted encryptedData.
C2_StoreRoundTrip ==
  \A body \in Bodies : \A id \in IssuableIds :
    LET r == PostResponse(body, id, now)
        stored == PostEffect(shares, body, id, now)
    IN (/\ r.status = 201
        /\ \/ body.expiresIn = Undefined
           \/ body.expiresIn.t = "number" /\ body.expiresIn.n > 0)
         => GetResponse(stored, r.body.id, now)
              = [status |-> 200, body |-> [encryptedData |-> body.encryptedData.s]]

\* C2 witness: a share is read back with 200 at the instant it was created.
C2_ReadBackAtCreation ==
  /\ res.status = 200
  /\ \E id \in DOMAIN shares :
       /\ shares[id].createdAt = now
       /\ shares[id].expiresAt.t = "number" /\ shares[id].expiresAt.n > now
       /\ res.body.encryptedData = shares[id].encryptedData

\* C3: for the share a client was given at time t with expiresIn = n > 0,
\* getShare answers 200 with the original blob at every clock value before
\* t + n seconds and 404 at every clock value after it, whatever sweeps,
\* other createShare calls and reads came in between.
C3_ShareLifecycle ==
  (link # NoLink /\ link.expiresIn.t = "number" /\ link.expiresIn.n > 0)
    => LET r == GetResponse(shares, link.id, now)
           expiry == link.at + Seconds(link.expiresIn.n)
       IN /\ now < expiry
               => r = [status |-> 200, body |-> [encryptedData |-> link.encryptedData]]
          /\ now > expiry => r.status = 404

\* C4: the response (status and body) to an identifier whose record has
\* expired equals the response to a well-formed identifier that was never
\* issued, also while the expired record is still in the table.
C4_ExpiredLooksNotFound ==
  \A id \in DOMAIN shares :
    (shares[id].expiresAt.t = "number" /\ shares[id].expiresAt.n < now)
      => GetResponse(shares, id, now) = GetResponse(shares, UnissuedId, now)

\* C5: every createShare answered 201 stores its record under an identifier
\* that was no key of the table before, adds exactly that one key and leaves
\* every record stored before unchanged.
C5_FreshIdentifier ==
  [][\A body \in Bodies :
       (PostShares(body) /\ res'.status = 201)
         => /\ res'.body.id \notin DOMAIN shares
            /\ DOMAIN shares' = (DOMAIN shares) \cup {res'.body.id}
            /\ \A i \in DOMAIN shares : i \in DOMAIN shares' /\ shares'[i] = shares[i]]_vars

\* C6: createShare either stores a record and answers 201 with that record's
\* identifier, or answers an error and leaves the table as it was.
C6_NoPartialSuccess ==
  [][\A body \in Bodies :
       PostShares(body)
         => \/ /\ res'.status = 201
               /\ res'.body.id \in DOMAIN shares'
               /\ shares'[res'.body.id].encryptedData = body.encryptedData.s
            \/ /\ res'.status # 201
               /\ shares' = shares]_vars

\* C7: every record of the table has expiresAt > createdAt (stated here for
\* the records whose expiresAt is a number).
C7_ExpiresAfterCreated ==
  \A id \in DOMAIN shares :
    shares[id].expiresAt.t = "number" => shares[id].expiresAt.n > shares[id].createdAt

\* C8: for every integer expiresIn of the request (0 included) the stored
\* expiresAt is now + expiresIn seconds, the 30-day default is used when
\* expiresIn is omitted, and the 201 response carries the stored expiresAt.
C8_ExpiryComputation ==
  [][\A body \in Bodies :
       (PostShares(body) /\ res'.status = 201)
         => LET rec == shares'[res'.body.id]
            IN /\ body.expiresIn.t = "number"
                    => rec.expiresAt = Num(now + Seconds(body.expiresIn.n))
               /\ body.expiresIn = Undefined
                    => rec.expiresAt = Num(now + ThirtyDays)
               /\ res'.body.expiresAt = ToISOString(rec.expiresAt)]_vars

C10_InvalidDataRejected ==
  \A body \in Bodies : \A id \in IssuableIds :
    (\/ body.encryptedData = Undefined
     \/ body.encryptedData = Str("")
     \/ body.encryptedData.t # "string")
      => /\ PostResponse(body, id, now).status = 400
         /\ PostEffect(shares, body, id, now) = shares

\* C10 witness: a body without usable encryptedData was answered 400 while
\* records are stored.
C10_InvalidDataAnswered ==
  /\ res = [status |-> 400, body |-> [error |-> "Invalid encryptedData"]]
  /\ shares # <<>>

(***************************************************************************)
(* The size of a blob.                                                     *)
(***************************************************************************)
\* C11: a request whose encryptedData is longer than the maximum size (the
\* limit of the body parser) gets a client error and leaves the Map as it
\* is, and no stored record holds an encryptedData longer than that size.
C11_BlobSizeBound ==
  /\ \A body \in LimitBodies \cup Bodies : \A id \in IssuableIds :
       (/\ body.encryptedData.t = "string"
        /\ Length(body.encryptedData.s) > JsonLimit)
         => /\ PostResponse(body, id, now).status \in 400..499
            /\ PostEffect(shares, body, id, now) = shares
  /\ \A id \in DOMAIN shares : Length(shares[id].encryptedData) <= JsonLimit

\* an oversized body was answered 413 while the Map holds the longest blob a
\* body can carry
C11_OversizedRefused ==
  /\ res.status = 413
  /\ \E id \in DOMAIN shares :
       Length(shares[id].encryptedData) = JsonLimit - Len("{\"encryptedData\":\"\"}")

(***************************************************************************)
(* The sweep.                                                              *)
(***************************************************************************)
\* C12: one run of the sweep deletes exactly the records with
\* expiresAt <= now: none of them is in the Map afterwards, and every record
\* with expiresAt > now is still there, unchanged.
C12_SweepDeletesExactlyExpired ==
  [][Cleanup =>
       /\ \A id \in DOMAIN shares' :
            ~(shares'[id].expiresAt.t = "number" /\ shares'[id].expiresAt.n <= now)
       /\ \A id \in DOMAIN shares :
            (shares[id].expiresAt.t = "number" /\ shares[id].expiresAt.n > now)
              => (id \in DOMAIN shares' /\ shares'[id] = shares[id])]_vars

\* what a caller of getShare is told: the status code and the blob
Outcome(r) == [status |-> r.status, blob |-> IF r.status = 200 THEN r.body.encryptedData ELSE ""]

\* C13: the status code and the blob of a getShare do not depend on when the
\* sweep runs: after the same requests at the same clock values, the store
\* whose timer fired and the store whose timer never fired answer every
\* getShare alike.
C13_SweepTimingInvisible ==
  \A id \in RequestIds :
    Outcome(GetResponse(shares, id, now)) = Outcome(GetResponse(unswept, id, now))

\* the sweep has deleted a record that the run without sweep still holds
C13_SweptInOneRunOnly ==
  \E id \in DOMAIN unswept :
    /\ id \notin DOMAIN shares
    /\ GetResponse(unswept, id, now).body = [error |-> "Share has expired"]
    /\ GetResponse(shares, id, now).body = [error |-> "Share not found"]

\* the sweeps to come: clock values further ahead than any time to live a
\* request of the model asks for (the longest is the default of 30 days)
LaterSweeps == {now + ThirtyDays + Ms(500), now + 10 * ThirtyDays}

\* C14: no stored record stays in the Map forever: with the timer firing and
\* the clock advancing, every record is deleted after its expiry.  A record
\* that the sweep keeps at every later clock value is never deleted by it, so
\* each record in the Map is one that some sweep to come deletes.
C14_EveryRecordSweptLater ==
  \A id \in DOMAIN shares : \E t \in LaterSweeps : id \notin DOMAIN Swept(shares, t)

(***************************************************************************)
(* Encryption.                                                             *)
(***************************************************************************)
\* C17: for every JSON-serializable payload P and every key K of valid
\* format, decryptData(encryptData(P, K), K) returns a value equal to P.
C17_EncryptionRoundTrip ==
  (/\ dec # NoCall /\ dec.key = enc.key
   /\ isValidEncryptionKey(enc.key) /\ IsJson(enc.data))
    => dec.result = Ok(enc.data)

\* a shared data set with an airfield whose name is not ASCII came back from
\* decryptData under an upper-case key
C17_DecryptedWithSameKey ==
  /\ dec # NoCall /\ dec.key = enc.key /\ dec.key = ToUpperCase(SomeKey)
  /\ dec.result.ok /\ dec.result.value = enc.data
  /\ enc.data[1] = "object"
  /\ Len(Member(enc.data, <<"a", "i", "r", "f", "i", "e", "l", "d", "s">>)[2]) = 2

\* C18: for every payload P and every two keys K1 and K2 that
\* isValidEncryptionKey accepts and that are distinct as strings,
\* decryptData(encryptData(P, K1), K2) fails and returns no value.
C18_WrongKeyNeverDecrypts ==
  (/\ dec # NoCall /\ dec.key # enc.key
   /\ isValidEncryptionKey(enc.key) /\ isValidEncryptionKey(dec.key))
    => ~dec.result.ok

\* C18, amended: for every payload P and every two keys K1 and K2 that
\* isValidEncryptionKey accepts and that are distinct even when the case of
\* their letters is ignored, decryptData(encryptData(P, K1), K2) fails and
\* returns no value.
C18_OtherKeyNeverDecrypts ==
  (/\ dec # NoCall /\ ToUpperCase(dec.key) # ToUpperCase(enc.key)
   /\ isValidEncryptionKey(enc.key) /\ isValidEncryptionKey(dec.key))
    => ~dec.result.ok

\* a payload encrypted under a generated key was refused by decryptData under
\* a key of valid format that differs from it in its last digit alone
C18_RefusedUnderOtherKey ==
  /\ dec # NoCall /\ enc.key = SomeKey /\ dec.key = [SomeKey EXCEPT ![32] = "0"]
  /\ dec.key # enc.key /\ isValidEncryptionKey(dec.key)
  /\ dec.result = Failure("OperationError")

\* C20: every key returned by generateEncryptionKey is a string of exactly
\* 32 hexadecimal characters that isValidEncryptionKey accepts.
C20_GeneratedKeyIsValid ==
  heldKey.from = "generateEncryptionKey" =>
    /\ Len(heldKey.text) = 32
    /\ \A i \in 1..Len(heldKey.text) : \E d \in 1..16 : HexDigits[d] = heldKey.text[i]
    /\ isValidEncryptionKey(heldKey.text)

\* a key was generated from bytes that are all below 16, each of which
\* toString(16) writes with a single digit
C20_KeyOfSmallBytes ==
  /\ heldKey.from = "generateEncryptionKey"
  /\ heldKey.text = generateEncryptionKey([i \in 1..16 |-> i - 1])
  /\ \A i \in 1..16 : heldKey.text[2 * i - 1] = "0"

(***************************************************************************)
(* Sharing and viewing.                                                    *)
(***************************************************************************)
\* m is a request that holds the text piece, in its URL or in its body
Carries(m, piece) == Contains(m.url, piece) \/ Contains(m.body, piece)

\* C15: no request a browser sends to the store, the POST of createShare or
\* the GET of getShare, holds the encryption key or the plaintext of the
\* ShareableData; the key is in the fragment of the share URL and nowhere
\* else in it, and a record of the store holds the ciphertext blob and two
\* timestamps, and nothing else.
C15_ZeroKnowledge ==
  /\ shared # NoShare =>
       \A key \in {shared.key}, plaintext \in {JsonStringify(shared.shareData)} :
         /\ \A m \in wire : ~Carries(m, key) /\ ~Carries(m, plaintext)
         /\ shared.result.ok =>
              /\ shared.result.value.url.hash = <<"#">> \o key
              /\ ~Contains(shared.result.value.url.path, key)
         /\ \A id \in DOMAIN shares :
              /\ ~Contains(shares[id].encryptedData, key)
              /\ ~Contains(shares[id].encryptedData, plaintext)
  /\ page.opened /\ Len(Substring1(page.hash)) > 0 =>
       \A m \in wire : m.method = "GET" => ~Carries(m, Substring1(page.hash))
  /\ \A id \in DOMAIN shares :
       DOMAIN shares[id] = {"encryptedData", "expiresAt", "createdAt"}

\* a share was created and its link opened: the POST and the GET are among
\* the requests sent, the store holds a record, and the page shows the data
C15_SharedAndViewed ==
  /\ shared # NoShare /\ shared.result.ok
  /\ shared.result.value.id \in DOMAIN shares
  /\ CreateShareRequest(shares[shared.result.value.id].encryptedData) \in wire
  /\ GetShareRequest(shared.result.value.id) \in wire
  /\ page.sharedData = Prune(shared.shareData)

\* C16: when createShare(airfields, flightPaths, title) has succeeded and
\* the URL it returned is opened before the share expires, SharedViewPage
\* fetches the record under the identifier the store issued and shows
\* sharedData whose airfields and flightPaths are the ones passed to
\* createShare.
C16_SharePipeline ==
  (/\ shared # NoShare /\ shared.result.ok
   /\ page.opened /\ ~page.loading
   /\ page.shareId = shared.result.value.id
   /\ page.hash = shared.result.value.url.hash
   /\ page.at < shared.at + ThirtyDays)
    => /\ GetShareRequest(shared.result.value.id) \in wire
       /\ page.error = <<>>
       /\ page.sharedData[1] = "object"
       /\ Member(page.sharedData, <<"a", "i", "r", "f", "i", "e", "l", "d", "s">>)
            = JArr(shared.airfields)
       /\ Member(page.sharedData, <<"f", "l", "i", "g", "h", "t", "P", "a", "t", "h", "s">>)
            = JArr(shared.flightPaths)

\* C19: SharedViewPage sends the request of getShare only if the fragment
\* of the URL is exactly 32 hexadecimal digits of either case; with any
\* other fragment it shows the invalid-key error, its loading ended, and no
\* request is sent.
C19_FailFastOnMalformedKey ==
  page.opened /\ Len(page.shareId) > 0 =>
    LET fragment == Substring1(page.hash)
        wellFormed == /\ Len(fragment) = 32
                      /\ \A i \in 1..Len(fragment) : DigitValue(fragment[i]) >= 0
        sent == \E m \in wire : m.method = "GET"
    IN  /\ sent => wellFormed
        /\ ~wellFormed => /\ ~sent
                          /\ page.error = <<"share.error.invalidKey">>
                          /\ ~page.loading
                          /\ page.sharedData = JNull

\* the link of a share was opened with a key cut short by one digit: the
\* page shows the invalid-key error and no GET was sent
C19_ShortKeyRefused ==
  /\ shared # NoShare /\ page.opened
  /\ page.shareId = shared.result.value.id
  /\ page.hash = <<"#">> \o SubSeq(shared.key, 1, 31)
  /\ page.error = <<"share.error.invalidKey">> /\ ~page.loading
  /\ \A m \in wire : m.method # "GET"

C22_ReadFrame ==
  \A id \in RequestIds :
    \E after \in {GetEffect(shares, id, now)} :
      /\ GetResponse(shares, id, now).status = 200 => after = shares
      /\ DOMAIN after \subseteq DOMAIN shares
      /\ \A k \in DOMAIN shares : k # id => k \in DOMAIN after /\ after[k] = shares[k]
      /\ (id \in DOMAIN shares /\ id \notin DOMAIN after) => Expired(shares[id], now)

\* a GET has answered that the share has expired, and another record that
\* has expired as well is in the table still
C22_OtherExpiredKept ==
  /\ res.status = 404 /\ res.body.error = "Share has expired"
  /\ \E k \in DOMAIN shares : Expired(shares[k], now)

\* C23: once a GET has answered 404 for an identifier that a 201 response
\* had given out, every later GET on that identifier answers 404 as well.
C23_ExpiryPermanent ==
  \A id \in history.gone : GetResponse(shares, id, now).status = 404

\* C24: when the dialog is opened while it is closed and no reset timer is
\* pending, it opens with shareUrl = null and error = null.
C24_ResetAfterClose ==
  [][(~dialog.open /\ dialog.timers = 0 /\ dialog'.open)
       => (dialog'.shareUrl = <<>> /\ dialog'.error = <<>>)]_vars

\* C25: when no run of loadSharedData is under way, the state of the page
\* is that of the latest run alone: the run that ended last is the one that
\* started last, no error is left when it succeeded, and no data when it
\* failed.
C25_LatestLoadOnly ==
  (page.opened /\ page.pending = <<>>) =>
    /\ page.settled.run = page.loads
    /\ (page.settled.status = 200 /\ page.settled.thrown = "") => page.error = <<>>
    /\ ~(page.settled.status = 200 /\ page.settled.thrown = "") => page.sharedData = JNull

\* C26: once the page is mounted, loading becomes false, and the page then
\* shows the error view or the view of the shared data.
C26_LoadingEnds ==
  page.opened ~> (~page.loading /\ Render(page) \in {"error", "data"})

C26_LoadEndedAfterFetch ==
  /\ page.opened /\ ~page.loading /\ page.pending = <<>>
  /\ page.settled.status = 200 /\ page.settled.thrown = "OperationError"
  /\ Render(page) = "error"

\* C27: homeAirfieldId is null or the id of an airfield in airfields.
C27_HomeReference ==
  \/ airfieldStore.homeAirfieldId = <<>>
  \/ \E id \in Ids(airfieldStore.airfields) : airfieldStore.homeAirfieldId = <<id>>

\* C28: on each page, at most one of selectedAirfield and selectedFlightPath
\* is non-null.
C28_SelectionExclusive ==
  \A p \in Pages :
    selection[p].selectedAirfield = <<>> \/ selection[p].selectedFlightPath = <<>>

\* C29: the departure and the arrival of every stored flight, where set,
\* are ids of airfields in airfields.
C29_FlightReferences ==
  \A i \in 1..Len(airfieldStore.flightPaths) :
    LET flightPath == airfieldStore.flightPaths[i] IN
      /\ flightPath.departure # <<>> => flightPath.departure[1] \in Ids(airfieldStore.airfields)
      /\ flightPath.arrival # <<>> => flightPath.arrival[1] \in Ids(airfieldStore.airfields)

====
